---- MODULE Spec2Model ----
(***************************************************************************)
(* Boat Management System (src/BoatManagement.c): the marina inventory     *)
(* held in main's array boats[0..boatCount-1], the CSV decoding done by    *)
(* loadBoatData and addBoat, the encoding done by saveBoatData, and the    *)
(* menu loop of main.                                                      *)
(*                                                                         *)
(* Representation.                                                         *)
(*  - A C string is a sequence of one-character strings, without its NUL.  *)
(*    A line is a string without its newline (the code strips it with      *)
(*    strcspn right after fgets).  All lines of the model are shorter than *)
(*    the 256-byte buffers and all names shorter than MAX_NAME_LENGTH.     *)
(*  - A float is an exact decimal fixed-point number: length in units of   *)
(*    10^-LengthDecimals feet, money in units of 10^-MoneyDecimals         *)
(*    dollars.  The binary rounding error of float is not modelled; the    *)
(*    inputs have sub-cent parts that are multiples of 1/8 and lengths     *)
(*    that are multiples of 1/2, which float holds exactly, and on these   *)
(*    printf's rounding is round-half-to-even.                             *)
(*  - malloc is assumed to succeed.                                        *)
(***************************************************************************)
EXTENDS Integers, Sequences, FiniteSets, TLC

VARIABLES
  pc,          \* where main is: "start", "menu" (top of the do-loop), "exited"
  argc,        \* main's argc
  file,        \* the backing file argv[1]: [exists, lines]
  boats,       \* boats[0..boatCount-1] as a sequence of Boat records
  stdinLeft,   \* lines left on standard input before end of file
  choice,      \* main's char choice; UNINIT until first assigned
  inputBuffer, \* main's inputBuffer: the last line fgets stored in it
  out,         \* what the last handler printed (besides prompts and listings)
  exitCode,    \* main's return value, -1 while running
  readOpens,   \* calls fopen(argv[1], "r") so far
  writeOpens   \* calls fopen(argv[1], "w") so far

vars == <<pc, argc, file, boats, stdinLeft, choice, inputBuffer, out,
          exitCode, readOpens, writeOpens>>

(***************************************************************************)
(* Program constants.                                                      *)
(***************************************************************************)
MAX_BOATS == 120
MAX_NAME_LENGTH == 128
TAG_LENGTH == 9
\* rates in cents per foot per month
SLIP_RATE == 1250
LAND_RATE == 1400
TRAILOR_RATE == 2500
STORAGE_RATE == 1120

\* decimal places kept of a float length and of a float amount
LengthDecimals == 1
MoneyDecimals == 3

UNINIT == "UNINIT"

(***************************************************************************)
(* Characters and the libc string functions the code calls.                *)
(***************************************************************************)
DigitChars == <<"0", "1", "2", "3", "4", "5", "6", "7", "8", "9">>
UpperChars == <<"A", "B", "C", "D", "E", "F", "G", "H", "I", "J", "K", "L", "M",
                "N", "O", "P", "Q", "R", "S", "T", "U", "V", "W", "X", "Y", "Z">>
LowerChars == <<"a", "b", "c", "d", "e", "f", "g", "h", "i", "j", "k", "l", "m",
                "n", "o", "p", "q", "r", "s", "t", "u", "v", "w", "x", "y", "z">>

PunctChars == <<" ", "+", ",", "-", ".", "?">>
PunctCodes == <<32, 43, 44, 45, 46, 63>>

\* the characters of the model's alphabet
CharSet ==
  {DigitChars[i] : i \in 1..10} \cup {UpperChars[i] : i \in 1..26}
    \cup {LowerChars[i] : i \in 1..26} \cup {PunctChars[i] : i \in 1..6}

IndexIn(tab, c) == CHOOSE i \in 1..Len(tab) : tab[i] = c
IsIn(tab, c) == \E i \in 1..Len(tab) : tab[i] = c

\* the ASCII code of each character
AsciiTable ==
  [c \in CharSet |->
     IF IsIn(DigitChars, c) THEN 47 + IndexIn(DigitChars, c)
     ELSE IF IsIn(UpperChars, c) THEN 64 + IndexIn(UpperChars, c)
     ELSE IF IsIn(LowerChars, c) THEN 96 + IndexIn(LowerChars, c)
     ELSE PunctCodes[IndexIn(PunctChars, c)]]
LowerTable ==
  [c \in CharSet |->
     IF IsIn(UpperChars, c) THEN LowerChars[IndexIn(UpperChars, c)] ELSE c]
UpperTable ==
  [c \in CharSet |->
     IF IsIn(LowerChars, c) THEN UpperChars[IndexIn(LowerChars, c)] ELSE c]

Ascii(c) == AsciiTable[c]
isdigit(c) == Ascii(c) >= 48 /\ Ascii(c) <= 57
isspace(c) == c = " "
tolower(c) == LowerTable[c]
toupper(c) == UpperTable[c]

\* the byte at 1-based position i of string s, 0 (NUL) at its end
ByteAt(s, i) == IF i <= Len(s) THEN Ascii(s[i]) ELSE 0
LowerByteAt(s, i) == IF i <= Len(s) THEN Ascii(tolower(s[i])) ELSE 0

RECURSIVE CmpFrom(_, _, _, _)
CmpFrom(a, b, i, fold) ==
  LET x == IF fold THEN LowerByteAt(a, i) ELSE ByteAt(a, i)
      y == IF fold THEN LowerByteAt(b, i) ELSE ByteAt(b, i)
  IN  IF x # y THEN x - y
      ELSE IF x = 0 THEN 0
      ELSE CmpFrom(a, b, i + 1, fold)

\* strcmp and strcasecmp: the difference of the first bytes that differ (after
\* tolower, for strcasecmp), 0 if there is none; identical strings give 0
strcmp(a, b) == IF a = b THEN 0 ELSE CmpFrom(a, b, 1, FALSE)
strcasecmp(a, b) == IF a = b THEN 0 ELSE CmpFrom(a, b, 1, TRUE)

\* strncpy(dst, src, n) followed by dst[n] = '\0'
strncpy(src, n) == IF Len(src) <= n THEN src ELSE SubSeq(src, 1, n)

\* strspn(s, ",") and strcspn(s, ",")
RECURSIVE strspn(_)
strspn(s) == IF s # <<>> /\ Head(s) = "," THEN 1 + strspn(Tail(s)) ELSE 0
RECURSIVE strcspn(_)
strcspn(s) == IF s # <<>> /\ Head(s) # "," THEN 1 + strcspn(Tail(s)) ELSE 0

\* strtok_r(rest, ",", &rest): the token, whether it is NULL (no token is
\* left), and the new rest.  Leading delimiters are skipped, so a token is
\* never empty.
strtok_r(rest) ==
  LET s == SubSeq(rest, strspn(rest) + 1, Len(rest))
      n == strcspn(s)
  IN  IF s = <<>> THEN [isNull |-> TRUE, token |-> <<>>, rest |-> <<>>]
      ELSE IF n = Len(s) THEN [isNull |-> FALSE, token |-> s, rest |-> <<>>]
      ELSE [isNull |-> FALSE, token |-> SubSeq(s, 1, n),
            rest |-> SubSeq(s, n + 2, Len(s))]

(***************************************************************************)
(* Numeric conversions: atoi, atof, and printf's %d, %.0f and %.2f.        *)
(***************************************************************************)
RECURSIVE Pow10(_)
Pow10(n) == IF n = 0 THEN 1 ELSE 10 * Pow10(n - 1)

RECURSIVE SkipSpaces(_, _)
SkipSpaces(s, i) == IF i <= Len(s) /\ isspace(s[i]) THEN SkipSpaces(s, i + 1) ELSE i

\* the number of consecutive digits of s from position i
RECURSIVE DigitRun(_, _)
DigitRun(s, i) == IF i <= Len(s) /\ isdigit(s[i]) THEN 1 + DigitRun(s, i + 1) ELSE 0

\* the value of a string of digits
RECURSIVE DigitsToInt(_)
DigitsToInt(ds) ==
  IF ds = <<>> THEN 0
  ELSE 10 * DigitsToInt(SubSeq(ds, 1, Len(ds) - 1)) + (Ascii(ds[Len(ds)]) - 48)

\* the position after an optional sign at position i, and the sign there
AfterSign(s, i) == IF i <= Len(s) /\ s[i] \in {"+", "-"} THEN i + 1 ELSE i
SignAt(s, i) == IF i <= Len(s) /\ s[i] = "-" THEN -1 ELSE 1

\* atoi: leading white space, an optional sign, then the leading digits; 0 if none
atoi(s) ==
  LET i == SkipSpaces(s, 1)
      j == AfterSign(s, i)
      n == DigitRun(s, j)
  IN  SignAt(s, i) * DigitsToInt(SubSeq(s, j, j + n - 1))

\* atof, keeping d decimal places: leading white space, an optional sign, digits,
\* an optional point and digits; 0 if the text does not start with a number.
\* (Exponents, hexadecimal, "inf" and "nan" are outside the model's inputs.)
atof(s, d) ==
  LET i == SkipSpaces(s, 1)
      j == AfterSign(s, i)
      n == DigitRun(s, j)
      k == j + n
      m == IF k <= Len(s) /\ s[k] = "." THEN DigitRun(s, k + 1) ELSE 0
      kept == IF m < d THEN m ELSE d
      whole == DigitsToInt(SubSeq(s, j, j + n - 1))
      frac == DigitsToInt(SubSeq(s, k + 1, k + kept)) * Pow10(d - kept)
  IN  SignAt(s, i) * (whole * Pow10(d) + frac)

\* printf("%d") of n >= 0, with at least w digits
RECURSIVE NatToStr(_, _)
NatToStr(n, w) ==
  IF n < 10 /\ w <= 1 THEN <<DigitChars[n + 1]>>
  ELSE Append(NatToStr(n \div 10, w - 1), DigitChars[(n % 10) + 1])

\* printf("%d", n)
IntToStr(n) == IF n < 0 THEN <<"-">> \o NatToStr(-n, 1) ELSE NatToStr(n, 1)

\* |v| (a number with din decimal places) rounded half-to-even to dout places
RoundTo(v, din, dout) ==
  LET a == IF v < 0 THEN -v ELSE v
      unit == Pow10(din - dout)
      q == a \div unit
      r == a % unit
  IN  IF 2 * r > unit \/ (2 * r = unit /\ q % 2 = 1) THEN q + 1 ELSE q

\* printf("%.<dout>f", v) of a number v with din decimal places; a negative
\* value keeps its sign even when it rounds to zero ("-0", "-0.00")
FormatFixed(v, din, dout) ==
  LET q == RoundTo(v, din, dout)
      whole == NatToStr(q \div Pow10(dout), 1)
      frac == IF dout = 0 THEN <<>> ELSE <<".">> \o NatToStr(q % Pow10(dout), dout)
  IN  (IF v < 0 THEN <<"-">> ELSE <<>>) \o whole \o frac


(***************************************************************************)
(* The record model: Boat, LocationType, LocationInfo.                     *)
(***************************************************************************)
LocationTypes == {"SLIP", "LAND", "TRAILOR", "STORAGE"}

\* The union LocationInfo.  Only the member that goes with the boat's
\* locationType is ever written or read; the other members are held at a
\* fixed filler value here.
NoInfo == [slipNumber |-> 0, bayLetter |-> "", trailorTag |-> <<>>, storageSpace |-> 0]

Boat(name, length, type, info, owed) ==
  [name |-> name, length |-> length, locationType |-> type,
   locationInfo |-> info, amountOwed |-> owed]

\* locationTypeToString
locationTypeToString(type) ==
  CASE type = "SLIP" -> <<"s", "l", "i", "p">>
    [] type = "LAND" -> <<"l", "a", "n", "d">>
    [] type = "TRAILOR" -> <<"t", "r", "a", "i", "l", "o", "r">>
    [] type = "STORAGE" -> <<"s", "t", "o", "r", "a", "g", "e">>
    [] OTHER -> <<"u", "n", "k", "n", "o", "w", "n">>

(***************************************************************************)
(* Decoding one CSV line.  loadBoatData and addBoat each carry their own   *)
(* copy of the parser; the copies differ in how the location keyword is    *)
(* compared (strcmp in loadBoatData, strcasecmp in addBoat) and in what    *)
(* they do with a rejected line.                                           *)
(***************************************************************************)
FormatError == [ok |-> FALSE, err |-> "Error: Invalid boat data format."]
TypeError == [ok |-> FALSE, err |-> "Error: Invalid location type."]
Parsed(b) == [ok |-> TRUE, boat |-> b]

\* the keyword test of the parser: fold = TRUE is strcasecmp, FALSE is strcmp
KeywordIs(token, type, fold) ==
  IF fold THEN strcasecmp(token, locationTypeToString(type)) = 0
  ELSE strcmp(token, locationTypeToString(type)) = 0

\* the location-specific field and the amount owed, once the keyword is known
ParseLocation(name, length, type, rest) ==
  LET t4 == strtok_r(rest)
      t5 == strtok_r(t4.rest)
      info ==
        CASE type = "SLIP" -> [NoInfo EXCEPT !.slipNumber = atoi(t4.token)]
          [] type = "LAND" -> [NoInfo EXCEPT !.bayLetter = t4.token[1]]
          [] type = "TRAILOR" ->
               [NoInfo EXCEPT !.trailorTag = strncpy(t4.token, TAG_LENGTH)]
          [] type = "STORAGE" -> [NoInfo EXCEPT !.storageSpace = atoi(t4.token)]
  IN  IF t4.isNull THEN FormatError
      ELSE IF type = "LAND" /\ Len(t4.token) = 0 THEN FormatError
      ELSE IF t5.isNull THEN FormatError
      ELSE Parsed(Boat(name, length, type, info, atof(t5.token, MoneyDecimals)))

ParseLine(buffer, fold) ==
  LET t1 == strtok_r(buffer)
      t2 == strtok_r(t1.rest)
      t3 == strtok_r(t2.rest)
      name == strncpy(t1.token, MAX_NAME_LENGTH - 1)
      length == atof(t2.token, LengthDecimals)
  IN  IF t1.isNull THEN FormatError
      ELSE IF t2.isNull THEN FormatError
      ELSE IF t3.isNull THEN FormatError
      ELSE IF KeywordIs(t3.token, "SLIP", fold)
        THEN ParseLocation(name, length, "SLIP", t3.rest)
      ELSE IF KeywordIs(t3.token, "LAND", fold)
        THEN ParseLocation(name, length, "LAND", t3.rest)
      ELSE IF KeywordIs(t3.token, "TRAILOR", fold)
        THEN ParseLocation(name, length, "TRAILOR", t3.rest)
      ELSE IF KeywordIs(t3.token, "STORAGE", fold)
        THEN ParseLocation(name, length, "STORAGE", t3.rest)
      ELSE TypeError

\* the parser inside loadBoatData's loop
loadParse(buffer) == ParseLine(buffer, FALSE)

\* the parser inside addBoat
addParse(buffer) == ParseLine(buffer, TRUE)

(***************************************************************************)
(* Encoding: the line saveBoatData prints for one boat.                    *)
(***************************************************************************)
EncodeInfo(boat) ==
  CASE boat.locationType = "SLIP" -> IntToStr(boat.locationInfo.slipNumber)
    [] boat.locationType = "LAND" -> <<boat.locationInfo.bayLetter>>
    [] boat.locationType = "TRAILOR" -> boat.locationInfo.trailorTag
    [] boat.locationType = "STORAGE" -> IntToStr(boat.locationInfo.storageSpace)

\* an encoder that prints the amount owed with "%.0f" as it does the length
Encode_wholeDollars(boat) ==
  boat.name \o <<",">> \o FormatFixed(boat.length, LengthDecimals, 0) \o <<",">>
    \o locationTypeToString(boat.locationType) \o <<",">>
    \o EncodeInfo(boat) \o <<",">>
    \o FormatFixed(boat.amountOwed, MoneyDecimals, 0)

Encode(boat) ==
  boat.name \o <<",">> \o FormatFixed(boat.length, LengthDecimals, 0) \o <<",">>
    \o locationTypeToString(boat.locationType) \o <<",">>
    \o EncodeInfo(boat) \o <<",">>
    \o FormatFixed(boat.amountOwed, MoneyDecimals, 2)

(***************************************************************************)
(* The inventory store.                                                    *)
(***************************************************************************)
\* compareBoats
compareBoats(a, b) == strcasecmp(a.name, b.name)

\* the place of arr[i] in the stable order by compareBoats: the number of
\* elements that come before it or are arr[i] itself
Rank(arr, i) ==
  Cardinality({j \in 1..Len(arr) :
                 \/ compareBoats(arr[j], arr[i]) < 0
                 \/ j <= i /\ compareBoats(arr[j], arr[i]) = 0})

\* rank is a tuple, so that each record's position is computed once
StableSorted(arr) ==
  LET rank == <<>> \o [i \in 1..Len(arr) |-> Rank(arr, i)]
  IN  [q \in 1..Len(arr) |-> arr[CHOOSE i \in 1..Len(arr) : rank[i] = q]]

Swapped(t, i, j) == [t EXCEPT ![i] = t[j], ![j] = t[i]]

\* every arrangement got from those of S by exchanging records that compare equal
RECURSIVE TieOrders(_)
TieOrders(S) ==
  LET more ==
        S \cup UNION { { Swapped(t, i, j) :
                           i \in { k \in 1..(j - 1) :
                                     t[k] # t[j] /\ compareBoats(t[k], t[j]) = 0 } } :
                       t \in S, j \in 1..Len(CHOOSE u \in S : TRUE) }
  IN  IF more = S THEN S ELSE TieOrders(more)

\* a qsort that leaves the array as it is
qsort_unsorted(arr) == {arr}

\* qsort(boats, n, sizeof(Boat*), compareBoats): qsort leaves the order of
\* elements that compare equal unspecified, so its result is any permutation
\* of the array that is ordered by compareBoats: the stable order, with the
\* records that compare equal in any order.
qsort(arr) == TieOrders({StableSorted(arr)})

\* a findBoatByName that keeps scanning and returns the last match
findBoatByName_last(bs, name) ==
  LET matches == {i \in 0..(Len(bs) - 1) : strcasecmp(bs[i + 1].name, name) = 0}
  IN  IF matches = {} THEN -1
      ELSE CHOOSE i \in matches : \A j \in matches : i >= j

\* findBoatByName: the loop returns at the first i whose name matches, so its
\* result is the least 0-based index that matches, -1 if none does
findBoatByName(bs, name) ==
  LET matches == {i \in 0..(Len(bs) - 1) : strcasecmp(bs[i + 1].name, name) = 0}
  IN  IF matches = {} THEN -1
      ELSE CHOOSE i \in matches : \A j \in matches : i <= j

\* a removeBoat that fills the hole with the last record instead of shifting
ShiftOut_swapLast(bs, index) ==
  [i \in 1..(Len(bs) - 1) |-> IF i = index + 1 THEN bs[Len(bs)] ELSE bs[i]]

\* the shift loop of removeBoat: boats[i] = boats[i + 1] from index on
ShiftOut(bs, index) ==
  [i \in 1..(Len(bs) - 1) |-> IF i < index + 1 THEN bs[i] ELSE bs[i + 1]]

\* loadBoatData's read loop: every line is parsed in turn and a line the
\* parser accepts adds a record, until end of file or until MAX_BOATS records
\* are held; so the loop keeps the first MAX_BOATS accepted lines
IsAccepted(r) == r.ok

LoadLines(lines) ==
  LET parsed == SelectSeq([i \in 1..Len(lines) |-> loadParse(lines[i])], IsAccepted)
      count == IF Len(parsed) < MAX_BOATS THEN Len(parsed) ELSE MAX_BOATS
  IN  [i \in 1..count |-> parsed[i].boat]

(***************************************************************************)
(* The billing engine.                                                     *)
(***************************************************************************)
\* a rate table whose Storage entry is the Slip rate
RateOf_storageAsSlip(type) ==
  CASE type = "SLIP" -> SLIP_RATE
    [] type = "LAND" -> LAND_RATE
    [] type = "TRAILOR" -> TRAILOR_RATE
    [] type = "STORAGE" -> SLIP_RATE

RateOf(type) ==
  CASE type = "SLIP" -> SLIP_RATE
    [] type = "LAND" -> LAND_RATE
    [] type = "TRAILOR" -> TRAILOR_RATE
    [] type = "STORAGE" -> STORAGE_RATE

\* monthlyCharge = length * rate, in units of 10^-MoneyDecimals dollars
monthlyCharge(boat) ==
  boat.length * RateOf(boat.locationType) * Pow10(MoneyDecimals - LengthDecimals - 2)

Charged(bs) ==
  [i \in 1..Len(bs) |-> [bs[i] EXCEPT !.amountOwed = @ + monthlyCharge(bs[i])]]


(***************************************************************************)
(* Inputs: the lines of the backing file, the lines typed at the prompts.  *)
(***************************************************************************)
MaxStdin == 5        \* lines on standard input before end of file
CapStdin == 3        \* lines on standard input in the capacity runs
CapSlack == 1        \* the capacity runs load MAX_BOATS -/+ CapSlack lines

Comma == <<",">>
Csv(f1, f2, f3, f4, f5) ==
  f1 \o Comma \o f2 \o Comma \o f3 \o Comma \o f4 \o Comma \o f5

Name_al == <<"a", "l">>
Name_Al == <<"A", "l">>
Name_AL == <<"A", "L">>
Name_bo == <<"b", "o">>
Name_zz == <<"z", "z">>

\* well-formed lines
Line_alSlip ==
  Csv(Name_al, <<"3", "0">>, <<"s", "l", "i", "p">>, <<"5">>,
      <<"1", "0", "0", ".", "0", "0">>)
Line_AlLand ==
  Csv(Name_Al, <<"1", "0">>, <<"l", "a", "n", "d">>, <<"B", "2">>,
      <<"5", "0", ".", "0", "0">>)
Line_boTrailor ==
  Csv(Name_bo, <<"1", "6">>, <<"t", "r", "a", "i", "l", "o", "r">>,
      <<"T", "X", "1", "2", "3", "4", "5", "6", "7", "8", "9">>,
      <<"0", ".", "1", "2", "5">>)
Line_boStorage ==
  Csv(Name_bo, <<"2", "0">>, <<"s", "t", "o", "r", "a", "g", "e">>, <<"7">>,
      <<"1">>)
\* the line repeated in the files of the capacity runs
Line_moored == Csv(<<"m">>, <<"9">>, <<"s", "l", "i", "p">>, <<"1">>, <<"0">>)
\* numeric fields that are not numbers
Line_notNumbers ==
  Csv(Name_zz, <<"x">>, <<"s", "l", "i", "p">>, <<"y">>, <<"z">>)
\* the keyword in upper case
Line_upperSlip ==
  Csv(Name_al, <<"2", ".", "5">>, <<"S", "L", "I", "P">>, <<"5">>, <<"1">>)
\* four fields
Line_missing ==
  Name_al \o Comma \o <<"2", ".", "5">> \o Comma \o <<"s", "l", "i", "p">>
    \o Comma \o <<"5">>
\* an empty first field, an empty fourth field, a sixth field
Line_leadComma ==
  Comma \o Csv(Name_al, <<"2", ".", "5">>, <<"s", "l", "i", "p">>, <<"5">>, <<"1">>)
Line_twoCommas ==
  Csv(Name_al, <<"2", ".", "5">>, <<"s", "l", "i", "p">>, Comma \o <<"5">>, <<"1">>)
Line_sixFields ==
  Csv(Name_al, <<"2", ".", "5">>, <<"s", "l", "i", "p">>, <<"5">>, <<"1">>)
    \o Comma \o <<"9">>
\* an unknown keyword
Line_badKeyword ==
  Csv(Name_al, <<"2", ".", "5">>, <<"d", "o", "c", "k">>, <<"5">>, <<"1">>)
Line_empty == <<>>

AddLines ==
  {Line_alSlip, Line_AlLand, Line_boTrailor, Line_boStorage, Line_notNumbers,
   Line_upperSlip, Line_missing, Line_leadComma, Line_twoCommas, Line_sixFields,
   Line_badKeyword, Line_empty}

\* the backing files the runs start with
FileInputs ==
  {<<>>,
   <<Line_alSlip, Line_AlLand>>,
   <<Line_boStorage, Line_alSlip>>,
   <<Line_alSlip, Line_missing>>,
   <<Line_upperSlip, Line_AlLand>>,
   <<Line_twoCommas>>}

NameInputs == {Name_AL, Name_bo, Name_zz}

AmountInputs ==
  {<<"1", "0", "0", ".", "0", "0">>, <<"0", ".", "1", "2", "5">>, <<"-", "1">>}

CmdChars == {"I", "A", "R", "P", "M", "X", "x", "?"}

Repeat(line, n) == [i \in 1..n |-> line]

NoFile == [exists |-> FALSE, lines |-> <<>>]
FileOf(lines) == [exists |-> TRUE, lines |-> lines]

(***************************************************************************)
(* The state at the entry of main.                                         *)
(***************************************************************************)
AtEntry ==
  /\ pc = "start"
  /\ boats = <<>>
  /\ choice = UNINIT
  /\ inputBuffer = <<>>
  /\ out = ""
  /\ exitCode = -1
  /\ readOpens = 0
  /\ writeOpens = 0

Init ==
  /\ AtEntry
  /\ \/ /\ argc = 2
        /\ file \in {NoFile} \cup {FileOf(ls) : ls \in FileInputs}
        /\ stdinLeft \in {0, MaxStdin}
     \/ /\ argc \in {1, 3}
        /\ file = NoFile
        /\ stdinLeft = 0

\* runs that start with a backing file of about MAX_BOATS lines
InitCap ==
  /\ AtEntry
  /\ \/ /\ argc = 2
        /\ file \in {FileOf(Repeat(Line_moored, n)) :
                       n \in (MAX_BOATS - CapSlack)..(MAX_BOATS + CapSlack)}
        /\ stdinLeft = CapStdin
     \/ /\ argc \in {1, 3}
        /\ file = NoFile
        /\ stdinLeft = 0

(***************************************************************************)
(* main, before and after the menu loop.                                   *)
(***************************************************************************)
\* argc != 2: the usage message and return 1
Usage ==
  /\ pc = "start"
  /\ argc # 2
  /\ out' = "Usage"
  /\ exitCode' = 1
  /\ pc' = "exited"
  /\ UNCHANGED <<argc, file, boats, stdinLeft, choice, inputBuffer, readOpens,
                 writeOpens>>

\* loadBoatData(argv[1], boats, &boatCount)
loadBoatData ==
  /\ readOpens' = readOpens + 1
  /\ IF ~file.exists
       THEN /\ out' = "Warning: Could not open file for reading."
            /\ boats' = boats
       ELSE /\ out' = ""
            /\ boats' \in qsort(LoadLines(file.lines))

Startup ==
  /\ pc = "start"
  /\ argc = 2
  /\ loadBoatData
  /\ pc' = "menu"
  /\ UNCHANGED <<argc, file, stdinLeft, choice, inputBuffer, exitCode, writeOpens>>

\* saveBoatData(argv[1], boats, boatCount); opened says whether fopen succeeded
saveBoatData(opened) ==
  /\ writeOpens' = writeOpens + 1
  /\ IF opened
       THEN /\ file' = FileOf([i \in 1..Len(boats) |-> Encode(boats[i])])
            /\ out' = ""
       ELSE /\ file' = file
            /\ out' = "Error: Could not open file for writing."

\* main after the loop: save, the exit message, freeAllBoats, return 0
Leave(opened) ==
  /\ saveBoatData(opened)
  /\ boats' = <<>>
  /\ exitCode' = 0
  /\ pc' = "exited"


(***************************************************************************)
(* The menu loop of main: one action per command.  Each action is one      *)
(* iteration of the do-loop: fgets of the command line, toupper of its     *)
(* first character, and the handler the switch calls with every line the   *)
(* handler reads.  A handler's fgets that meets end of file reads nothing. *)
(***************************************************************************)
\* fgets(inputBuffer) returned the command line whose first character is c
ReadCommand(c) ==
  /\ pc = "menu"
  /\ stdinLeft > 0
  /\ choice' = toupper(c)

\* the backing file is not touched inside the loop
LoopFrame == UNCHANGED <<pc, argc, file, exitCode, readOpens, writeOpens>>

\* case 'I': displayInventory (the listing itself is not modelled)
InventoryCmd(c) ==
  /\ ReadCommand(c)
  /\ toupper(c) = "I"
  /\ inputBuffer' = <<c>>
  /\ stdinLeft' = stdinLeft - 1
  /\ out' = ""
  /\ boats' = boats
  /\ LoopFrame

\* an addBoat whose capacity test is *boatCount > MAX_BOATS
addBoat_offByOne(boatData) ==
  IF Len(boats) > MAX_BOATS
    THEN /\ out' = "Error: Maximum number of boats reached."
         /\ boats' = boats
    ELSE LET r == addParse(boatData)
         IN  IF ~r.ok
               THEN /\ out' = r.err
                    /\ boats' = boats
               ELSE /\ out' = ""
                    /\ boats' \in qsort(Append(boats, r.boat))

\* addBoat(boats, &boatCount, boatData)
addBoat(boatData) ==
  IF Len(boats) >= MAX_BOATS
    THEN /\ out' = "Error: Maximum number of boats reached."
         /\ boats' = boats
    ELSE LET r == addParse(boatData)
         IN  IF ~r.ok
               THEN /\ out' = r.err
                    /\ boats' = boats
               ELSE /\ out' = ""
                    /\ boats' \in qsort(Append(boats, r.boat))

\* case 'A': the prompt, fgets of the CSV line, addBoat
AddCmd(c, line) ==
  /\ ReadCommand(c)
  /\ toupper(c) = "A"
  /\ IF stdinLeft >= 2
       THEN /\ inputBuffer' = line
            /\ stdinLeft' = stdinLeft - 2
            /\ addBoat(line)
       ELSE /\ inputBuffer' = <<c>>
            /\ stdinLeft' = 0
            /\ out' = ""
            /\ boats' = boats
  /\ LoopFrame

\* case 'R': removeBoat(boats, &boatCount), which reads the name
RemoveCmd(c, name) ==
  /\ ReadCommand(c)
  /\ toupper(c) = "R"
  /\ inputBuffer' = <<c>>
  /\ IF stdinLeft >= 2
       THEN LET index == findBoatByName(boats, name)
            IN  /\ stdinLeft' = stdinLeft - 2
                /\ IF index = -1
                     THEN /\ out' = "No boat with that name"
                          /\ boats' = boats
                     ELSE /\ out' = ""
                          /\ boats' = ShiftOut(boats, index)
       ELSE /\ stdinLeft' = 0
            /\ out' = ""
            /\ boats' = boats
  /\ LoopFrame

\* a payment test that also turns away a payment of the whole balance
PaymentTooLarge_orEqual(payment, owed) == payment >= owed

\* acceptPayment's test: payment > boats[index]->amountOwed
PaymentTooLarge(payment, owed) == payment > owed

\* case 'P': acceptPayment(boats, boatCount), which reads the name and, when
\* the name is found, the amount
PaymentCmd(c, name, amount) ==
  /\ ReadCommand(c)
  /\ toupper(c) = "P"
  /\ inputBuffer' = <<c>>
  /\ IF stdinLeft >= 2
       THEN LET index == findBoatByName(boats, name)
                payment == atof(amount, MoneyDecimals)
            IN  IF index = -1
                  THEN /\ stdinLeft' = stdinLeft - 2
                       /\ out' = "No boat with that name"
                       /\ boats' = boats
                  ELSE IF stdinLeft >= 3
                    THEN /\ stdinLeft' = stdinLeft - 3
                         /\ IF PaymentTooLarge(payment, boats[index + 1].amountOwed)
                              THEN /\ out' = "That is more than the amount owed"
                                   /\ boats' = boats
                              ELSE /\ out' = ""
                                   /\ boats' = [boats EXCEPT ![index + 1].amountOwed =
                                                               @ - payment]
                    ELSE /\ stdinLeft' = 0
                         /\ out' = ""
                         /\ boats' = boats
       ELSE /\ stdinLeft' = 0
            /\ out' = ""
            /\ boats' = boats
  /\ LoopFrame

\* case 'M': updateMonthlyCharges(boats, boatCount)
MonthCmd(c) ==
  /\ ReadCommand(c)
  /\ toupper(c) = "M"
  /\ inputBuffer' = <<c>>
  /\ stdinLeft' = stdinLeft - 1
  /\ out' = ""
  /\ boats' = Charged(boats)
  /\ LoopFrame

\* case 'X': the loop ends and main saves and returns
ExitCmd(c, opened) ==
  /\ ReadCommand(c)
  /\ toupper(c) = "X"
  /\ inputBuffer' = <<c>>
  /\ stdinLeft' = stdinLeft - 1
  /\ Leave(opened)
  /\ UNCHANGED <<argc, readOpens>>

\* default: "Invalid option"
InvalidCmd(c) ==
  /\ ReadCommand(c)
  /\ toupper(c) \notin {"I", "A", "R", "P", "M", "X"}
  /\ inputBuffer' = <<c>>
  /\ stdinLeft' = stdinLeft - 1
  /\ out' = "Invalid option"
  /\ boats' = boats
  /\ LoopFrame

\* fgets of the command line meets end of file: the switch is skipped and the
\* loop condition choice != 'X' is tested on the old choice.  Before the first
\* command choice is uninitialized, so the test may go either way (isX); after
\* a command choice is not 'X' and the loop goes round again.
EndOfInput(isX, opened) ==
  /\ pc = "menu"
  /\ stdinLeft = 0
  /\ IF choice = UNINIT /\ isX
       THEN /\ Leave(opened)
            /\ UNCHANGED <<argc, stdinLeft, choice, inputBuffer, readOpens>>
       ELSE /\ out' = ""
            /\ UNCHANGED <<pc, argc, file, boats, stdinLeft, choice, inputBuffer,
                           exitCode, readOpens, writeOpens>>

Next ==
  \/ Usage
  \/ Startup
  \/ \E c \in CmdChars : InventoryCmd(c)
  \/ \E c \in CmdChars, line \in AddLines : AddCmd(c, line)
  \/ \E c \in CmdChars, name \in NameInputs : RemoveCmd(c, name)
  \/ \E c \in CmdChars, name \in NameInputs, amount \in AmountInputs :
       PaymentCmd(c, name, amount)
  \/ \E c \in CmdChars : MonthCmd(c)
  \/ \E c \in CmdChars, opened \in BOOLEAN : ExitCmd(c, opened)
  \/ \E c \in CmdChars : InvalidCmd(c)
  \/ \E isX \in BOOLEAN, opened \in BOOLEAN : EndOfInput(isX, opened)

Spec == Init /\ [][Next]_vars

SpecCap == InitCap /\ [][Next]_vars


(***************************************************************************)
(* Properties.                                                             *)
(***************************************************************************)
\* the 1-based positions of bs whose name equals name without regard to case
Matching(bs, name) == {i \in 1..Len(bs) : strcasecmp(bs[i].name, name) = 0}
Least(S) == CHOOSE i \in S : \A j \in S : i <= j

\* C1: the collection is ordered by case-insensitive name: for every adjacent
\* pair, strcasecmp(name[i], name[i+1]) <= 0.  It holds right after load and
\* after every add, and so in every state of every run.
C1_SortedByName ==
  \A i \in 1..(Len(boats) - 1) : strcasecmp(boats[i].name, boats[i + 1].name) <= 0

\* an add has just put "al" in front of a "bo" read from the file
C1_Witness ==
  /\ choice = "A"
  /\ out = ""
  /\ inputBuffer = Line_AlLand
  /\ file.lines = <<Line_boStorage, Line_alSlip>>
  /\ Len(boats) = 3
  /\ boats[3].name = Name_bo

\* C2: a payment for an existing boat that is more than the boat owes is
\* turned away and changes nothing; a payment of exactly what the boat owes
\* leaves a balance of 0; any payment that is not more than what the boat owes
\* leaves the balance less the payment.
C2_Payment ==
  [][\A c \in CmdChars, name \in NameInputs, amount \in AmountInputs :
       (PaymentCmd(c, name, amount) /\ stdinLeft >= 3 /\ Matching(boats, name) # {})
         => LET i == Least(Matching(boats, name))
                paid == atof(amount, MoneyDecimals)
                owed == boats[i].amountOwed
            IN  /\ paid > owed =>
                     boats' = boats /\ out' = "That is more than the amount owed"
                /\ paid = owed => boats'[i].amountOwed = 0 /\ out' = ""
                /\ paid <= owed => boats'[i].amountOwed = owed - paid /\ out' = ""
    ]_vars

\* the only boat of the file owed 100.00 and 100.00 has just been paid
C2_Witness ==
  /\ choice = "P"
  /\ out = ""
  /\ stdinLeft = MaxStdin - 3
  /\ file.lines = <<Line_alSlip, Line_missing>>
  /\ Len(boats) = 1
  /\ boats[1].name = Name_al
  /\ boats[1].amountOwed = 0

\* the rates of the claim, in thousandths of a dollar per tenth of a foot
C3_Rate(type) ==
  CASE type = "SLIP" -> 1250
    [] type = "LAND" -> 1400
    [] type = "TRAILOR" -> 2500
    [] type = "STORAGE" -> 1120

\* C3: the monthly update adds length * rate[locationType] to the amount owed
\* of every record, once, with rates Slip 12.50, Land 14.00, Trailor 25.00 and
\* Storage 11.20 (Slip 30 adds 375.00, Land 10 adds 140.00, Trailor 16 adds
\* 400.00, Storage 20 adds 224.00), and changes nothing else: not the names,
\* lengths, locations, order or number of the records.
C3_MonthlyCharges ==
  [][\A c \in CmdChars :
       MonthCmd(c) =>
         /\ Len(boats') = Len(boats)
         /\ \A i \in 1..Len(boats) :
              boats'[i] = [boats[i] EXCEPT !.amountOwed =
                             @ + boats[i].length * C3_Rate(boats[i].locationType)]
         /\ \A i \in 1..Len(boats) :
              LET b == boats[i]
                  added == boats'[i].amountOwed - b.amountOwed
              IN  /\ b.locationType = "SLIP" /\ b.length = 300 => added = 375000
                  /\ b.locationType = "LAND" /\ b.length = 100 => added = 140000
                  /\ b.locationType = "TRAILOR" /\ b.length = 160 => added = 400000
                  /\ b.locationType = "STORAGE" /\ b.length = 200 => added = 224000
    ]_vars

\* a month has just been charged to the Storage boat of 20 feet that owed 1.00
\* and to the Slip boat of 30 feet that owed 100.00
C3_Witness ==
  /\ choice = "M"
  /\ stdinLeft = MaxStdin - 1
  /\ file.lines = <<Line_boStorage, Line_alSlip>>
  /\ Len(boats) = 2
  /\ boats[1].amountOwed = 475000
  /\ boats[2].amountOwed = 225000

\* C7: removing a name that no record has leaves the collection as it was;
\* removing a name that some record has deletes the first record with that
\* name and only it: the size goes down by 1 and the other records keep their
\* contents and their order, with no gap.
C7_Remove ==
  [][\A c \in CmdChars, name \in NameInputs :
       (RemoveCmd(c, name) /\ stdinLeft >= 2)
         => IF Matching(boats, name) = {}
              THEN boats' = boats /\ out' = "No boat with that name"
              ELSE LET k == Least(Matching(boats, name))
                   IN  /\ Len(boats') = Len(boats) - 1
                       /\ \A i \in 1..(k - 1) : boats'[i] = boats[i]
                       /\ \A i \in k..(Len(boats) - 1) : boats'[i] = boats[i + 1]
    ]_vars

\* the file held two boats called al and Al, and one of them has just been
\* removed by the name AL
C7_Witness ==
  /\ choice = "R"
  /\ out = ""
  /\ stdinLeft = MaxStdin - 2
  /\ file.lines = <<Line_alSlip, Line_AlLand>>
  /\ Len(boats) = 1

\* C10: the lookup of a payment takes the first record whose name equals the
\* given name without regard to case.  A payment that is taken changes the
\* amount owed of that record and nothing else, also when other records have
\* the same name; a payment for a name that no record has changes nothing.
C10_FirstMatchOnly ==
  [][\A c \in CmdChars, name \in NameInputs, amount \in AmountInputs :
       (PaymentCmd(c, name, amount) /\ stdinLeft >= 2)
         => IF Matching(boats, name) = {}
              THEN boats' = boats /\ out' = "No boat with that name"
              ELSE LET k == Least(Matching(boats, name))
                   IN  /\ findBoatByName(boats, name) = k - 1
                       /\ Len(boats') = Len(boats)
                       /\ \A i \in 1..Len(boats) : i # k => boats'[i] = boats[i]
                       /\ boats'[k] =
                            [boats[k] EXCEPT !.amountOwed = boats'[k].amountOwed]
                       /\ (stdinLeft >= 3 /\ atof(amount, MoneyDecimals) <= boats[k].amountOwed)
                            => boats'[k].amountOwed =
                                 boats[k].amountOwed - atof(amount, MoneyDecimals)
    ]_vars

\* two boats called al and Al came from the file; a payment by the name AL has
\* just changed what the first owes and has left the second as it was
C10_Witness ==
  /\ choice = "P"
  /\ out = ""
  /\ stdinLeft = MaxStdin - 3
  /\ file.lines = <<Line_alSlip, Line_AlLand>>
  /\ Len(boats) = 2
  /\ boats[1].amountOwed \notin {100000, 50000}
  /\ boats[2].amountOwed \in {100000, 50000}


\* C4: the location keyword is matched without regard to case by both
\* decoders, so load and add accept the same lines: right after load, before
\* any command, the records held are the records that add decodes from the
\* lines of the file.
C4_LoadAcceptsWhatAddAccepts ==
  (pc = "menu" /\ choice = UNINIT /\ file.exists)
    => {boats[i] : i \in 1..Len(boats)}
         = {addParse(file.lines[j]).boat :
              j \in {k \in 1..Len(file.lines) : addParse(file.lines[k]).ok}}

\* the fields of a line: the text between its commas, empty fields included
RECURSIVE FieldsOf(_)
FieldsOf(s) ==
  IF strcspn(s) = Len(s) THEN <<s>>
  ELSE <<SubSeq(s, 1, strcspn(s))>> \o FieldsOf(SubSeq(s, strcspn(s) + 2, Len(s)))

\* exactly five fields, none empty, the third a location keyword in any case
C5_WellFormed(line) ==
  LET f == FieldsOf(line)
  IN  /\ Len(f) = 5
      /\ \A i \in 1..5 : f[i] # <<>>
      /\ \E t \in LocationTypes : strcasecmp(f[3], locationTypeToString(t)) = 0

C5_LowerKeyword(line) ==
  \E t \in LocationTypes : strcmp(FieldsOf(line)[3], locationTypeToString(t)) = 0

\* C5: a line that is not exactly five non-empty comma-separated fields with a
\* known location keyword is rejected as a whole.  On load it gives no record
\* and the other lines are loaded all the same (the case of the keyword on
\* load is C4's matter: here the other lines have it in lower case); on add an
\* error is reported and the collection is unchanged.
C5_MalformedRejected ==
  [][/\ (Startup /\ file.exists) =>
          /\ \A i \in 1..Len(boats') :
               \E j \in 1..Len(file.lines) :
                 /\ C5_WellFormed(file.lines[j])
                 /\ addParse(file.lines[j]) = Parsed(boats'[i])
          /\ \A j \in 1..Len(file.lines) :
               (C5_WellFormed(file.lines[j]) /\ C5_LowerKeyword(file.lines[j]))
                 => \E i \in 1..Len(boats') : addParse(file.lines[j]) = Parsed(boats'[i])
     /\ \A c \in CmdChars, line \in AddLines :
          (AddCmd(c, line) /\ stdinLeft >= 2 /\ ~C5_WellFormed(line))
            => /\ boats' = boats
               /\ out' \in {FormatError.err, TypeError.err,
                            "Error: Maximum number of boats reached."}
    ]_vars

Abs(x) == IF x < 0 THEN -x ELSE x

\* C6 as claimed: decoding the line that encodes a record of the collection
\* gives back its name, location type, location payload and amount owed, and
\* its length rounded to a whole number of feet.
C6_RoundTripExact ==
  \A i \in 1..Len(boats) :
    LET b == boats[i]
        d == loadParse(Encode(b))
    IN  /\ d.ok
        /\ d.boat.name = b.name
        /\ d.boat.locationType = b.locationType
        /\ d.boat.locationInfo = b.locationInfo
        /\ d.boat.amountOwed = b.amountOwed
        /\ d.boat.length % Pow10(LengthDecimals) = 0
        /\ 2 * Abs(d.boat.length - b.length) <= Pow10(LengthDecimals)

\* C6, amended: decoding the line that encodes a record of the collection
\* gives back its name, location type and location payload, its length
\* rounded to a whole number of feet and its amount owed rounded to a whole
\* number of cents; encoding and decoding that record again gives it back
\* unchanged.
C6_RoundTrip ==
  \A i \in 1..Len(boats) :
    LET b == boats[i]
        d == loadParse(Encode(b))
    IN  /\ d.ok
        /\ d.boat.name = b.name
        /\ d.boat.locationType = b.locationType
        /\ d.boat.locationInfo = b.locationInfo
        /\ d.boat.amountOwed % Pow10(MoneyDecimals - 2) = 0
        /\ 2 * Abs(d.boat.amountOwed - b.amountOwed) <= Pow10(MoneyDecimals - 2)
        /\ d.boat.length % Pow10(LengthDecimals) = 0
        /\ 2 * Abs(d.boat.length - b.length) <= Pow10(LengthDecimals)
        /\ loadParse(Encode(d.boat)) = d

\* the collection holds a record that owes a fraction of a cent and a record
\* whose length is not a whole number of feet
C6_Witness ==
  /\ pc = "menu"
  /\ \E i \in 1..Len(boats) : boats[i].amountOwed % Pow10(MoneyDecimals - 2) # 0
  /\ \E i \in 1..Len(boats) : boats[i].length % Pow10(LengthDecimals) # 0

\* C8: the collection never holds more than 120 records: load keeps the first
\* 120 records it decodes, and an add to a collection of 120 is turned away
\* with "maximum reached" and changes nothing, well-formed line or not.
C8_Capacity ==
  [][/\ Len(boats') <= 120
     /\ (Startup /\ file.exists) =>
          LET accepted ==
                Cardinality({j \in 1..Len(file.lines) : loadParse(file.lines[j]).ok})
          IN  Len(boats') = IF accepted > 120 THEN 120 ELSE accepted
     /\ \A c \in CmdChars, line \in AddLines :
          (AddCmd(c, line) /\ stdinLeft >= 2 /\ Len(boats) = 120)
            => /\ boats' = boats
               /\ out' = "Error: Maximum number of boats reached."
    ]_vars

\* 120 records were kept of a file of 121 lines, and a well-formed line has
\* just been turned away
C8_Witness ==
  /\ choice = "A"
  /\ inputBuffer = Line_alSlip
  /\ out = "Error: Maximum number of boats reached."
  /\ Len(file.lines) = 121
  /\ Len(boats) = 120

\* C9: in a run with a file argument the file is opened once for reading,
\* before the first command, and once for writing; the write happens once,
\* only after the exit command X has been read, and then the process ends
\* with exit code 0.
C9_SaveOnlyAfterExit ==
  argc = 2 =>
    /\ readOpens <= 1 /\ writeOpens <= 1
    /\ pc = "menu" => readOpens = 1 /\ writeOpens = 0
    /\ writeOpens = 1 => choice = "X"
    /\ choice = "X" => pc = "exited"
    /\ pc = "exited" => readOpens = 1 /\ writeOpens = 1 /\ exitCode = 0


====
